---- MODULE Spec2Model ----
(***************************************************************************)
(* Model of the BCM2711 Mini-UART driver rpi_uart.c: module load/unload,   *)
(* the bring-up sequence uart_init_os, the TX path (uart_send_char,        *)
(* uart_send_string, uart_proc_write) and the RX path (uart_data_available,*)
(* uart_receive_char, uart_proc_read).  One step of the model is one MMIO  *)
(* access (or one loop-condition evaluation) of the driver; the serial     *)
(* line and the TX FIFO of the peripheral are the environment.             *)
(***************************************************************************)
EXTENDS Integers, Sequences, FiniteSets, TLC

(***************************************************************************)
(* Bounds of the environment (not program constants).                      *)
(***************************************************************************)
\* total number of bytes the serial line delivers in one run
MaxLine == 2
\* longest short payload a caller writes to the tx node
MaxPayload == 2
\* largest small count argument of a read
MaxCount == 1
\* a count argument above the size of the internal buffer
BigCount == 300
\* length of a long unbroken stream on the line
FloodLen == 257
\* length of a long payload written to the tx node
LongLen == 400

(***************************************************************************)
(* Program constants.                                                      *)
(***************************************************************************)
\* char kbuf[256] of uart_proc_read and of uart_proc_write
KBUF_SIZE == 256
\* int timeout = 1000 (first-byte wait, in 1 ms sleeps)
FIRST_BYTE_TIMEOUT == 1000
\* const int MAX_CONSECUTIVE_NO_DATA = 300
MAX_CONSECUTIVE_NO_DATA == 300
\* errno values returned by the handlers and by uart_driver_init
EFAULT == 14
ENOMEM == 12
\* uart.h (not part of the sources at hand): values as the design document
\* gives them: function select 2 = alternate function 5; pull 0 = none, 1 = up
GPIO_FSEL_ALT5 == 2
GPIO_PUPDN_NONE == 0
GPIO_PUPDN_UP == 1

CR == 13
LF == 10
NUL == 0

(***************************************************************************)
(* 32-bit words of the C expressions (u32 val, the int constants shifted   *)
(* into it): a word is the function from bit position to bit.              *)
(***************************************************************************)
WordBits == 0..31

\* bit k of the natural number n < 2^31
BitOfInt(n, k) == IF k >= 31 THEN 0 ELSE (n \div (2 ^ k)) % 2

\* the 32-bit word holding the natural number n
Word(n) == [k \in WordBits |-> BitOfInt(n, k)]

\* a << n on a 32-bit word (bits shifted out are lost)
Shl(a, n) == [k \in WordBits |-> IF k >= n THEN a[k - n] ELSE 0]

\* a & b, a | b, ~a
BitAnd(a, b) == [k \in WordBits |-> a[k] * b[k]]
BitOr(a, b) == [k \in WordBits |-> IF a[k] + b[k] > 0 THEN 1 ELSE 0]
BitNot(a) == [k \in WordBits |-> 1 - a[k]]

RECURSIVE FieldN(_, _, _)
\* the number held by the `width` bits of a from bit `shift` upwards
FieldN(a, shift, width) ==
    IF width = 0 THEN 0 ELSE a[shift] + 2 * FieldN(a, shift + 1, width - 1)

\* a truncated to its low 16 bits (a u16 variable)
Low16(a) == [k \in WordBits |-> IF k < 16 THEN a[k] ELSE 0]

Zero == Word(0)
\* (1 << 0), the data-ready bit of MU_LSR; (1 << 5), its TX-space bit
LSR_DATA_READY == Shl(Word(1), 0)
LSR_TX_SPACE == Shl(Word(1), 5)

\* a word as stored in a register: <<high half, low half>>
Pack(a) == <<FieldN(a, 16, 16), FieldN(a, 0, 16)>>
Unpack(p) ==
    [k \in WordBits |-> IF k < 16 THEN BitOfInt(p[2], k) ELSE BitOfInt(p[1], k - 16)]

(***************************************************************************)
(* State.                                                                  *)
(***************************************************************************)
VARIABLES
    \* --- peripheral and line (environment) ---
    regs,        \* content of the memory-mapped registers that hold a value
    rxFifo,      \* RX FIFO of the Mini-UART: bytes received, not yet read
    txSpace,     \* TX FIFO has space (MU_LSR bit 5)
    lineLeft,    \* bytes the serial line may still deliver
    flood,       \* the line delivers a long unbroken stream
    \* --- module lifecycle (uart_driver_init / uart_driver_exit) ---
    mpc,         \* position of the module thread
    initStep,    \* next statement of uart_init_os
    gpio,        \* the GPIO region is mapped
    uart,        \* the auxiliary (UART) region is mapped
    proc_tx,     \* /proc/uart_tx exists
    proc_rx,     \* /proc/uart_rx exists
    loadRet,     \* value returned by the last uart_driver_init (0 before)
    mmioLog,     \* MMIO writes and barrier of the load in progress, in order
    regsAtLoad,  \* the registers as the last uart_init_os left them
    resLog,      \* resource calls of the current load/unload cycle, in order
    undo,        \* releases a failing uart_driver_init has still to make
    \* --- uart_send_string as called by the module thread (the banners) ---
    bpc,         \* position in uart_send_string / uart_send_char
    bStr,        \* the rest of the NUL-terminated string (the pointer s)
    bPend,       \* arguments of the uart_send_char bodies still to run
    bLine,       \* bytes written to MU_IO by the current call, in order
    bLsrOk,      \* the last MU_LSR read of the module thread saw bit 5 set
                 \* and no MU_IO write of that thread followed it
    \* --- uart_proc_write and its uart_send_string ---
    tpc,         \* position in uart_send_string / uart_send_char
    txWho,       \* the handler in progress: "write" ("none" when idle)
    txStr,       \* the rest of the NUL-terminated string (the pointer s)
    txPend,      \* arguments of the uart_send_char bodies still to run
    txLine,      \* bytes written to MU_IO by the current call, in order
    txIn,        \* the string handed to uart_send_string by the current call
    lsrOk,       \* the last MU_LSR read of the writing thread saw bit 5 set
                 \* and no MU_IO write of that thread followed it
    wbuf,        \* the caller's buffer of the current uart_proc_write
    wcopied,     \* copy_from_user of the current uart_proc_write succeeded
    wcount,      \* count argument of the current uart_proc_write
    wret,        \* return value of uart_proc_write
    \* --- RX path (uart_proc_read) ---
    rpc,         \* position in uart_proc_read
    count,       \* count argument
    timeout,     \* int timeout
    i,           \* int i
    q,           \* int consecutive_no_data
    kbuf,        \* kbuf[0..i-1], and the terminator once it is written
    taken,       \* bytes this call read from MU_IO, in order (not recorded
                 \* against an endless stream)
    touched,     \* this call has read a peripheral register
    out,         \* bytes copied to the caller's buffer
    rret,        \* return value of uart_proc_read
    retAt,       \* the return statement taken: "gate" (line 139), "wait"
                 \* (149), "empty" (185), "fault" (191), "ok" (197)
    sawData,     \* the last poll of the first-byte wait saw data available
    fifoAtEntry, \* content of the RX FIFO when the call was entered
    ppos,        \* *ppos: the cursor of the open file
    hasPrev,     \* a read on this cursor has returned before
    prevRet,     \* return value of that previous read
    \* --- the scenario explored and what is observed in it ---
    mode,        \* "serial": one handler at a time; "tick": one handler at a
                 \* time, the sleeps of a read are counted; "stream": reads
                 \* against an endless stream on the line; "conc": a read
                 \* and a write run alone, then again at the same time on
                 \* the same input; "overlap": the handlers run
                 \* whenever their node exists, concurrently with the module
                 \* thread
    sleeps,      \* <<udelay(1000) calls of the current read in the first-byte
                 \* wait, in the drain loop>>
    late,        \* a byte arrived on the line while the current read was in
                 \* its drain loop
    idleReads,   \* bytes the current read took from MU_IO since the first of
                 \* the idle ticks that consecutive_no_data counts
    arrived,     \* bytes that entered the RX FIFO from the line during the
                 \* current read (not recorded against an endless stream)
    ref,         \* the read that ran alone: <<count, content of the RX FIFO at
                 \* entry, bytes copied to the caller, return value>>
    wref,        \* the write that ran alone: <<payload, bytes written to
                 \* MU_IO, return value>>
    together     \* the calls that ran alone are repeated, on the same input,
                 \* at the same time

hwVars == <<regs, rxFifo, txSpace, lineLeft, flood>>
banVars == <<bpc, bStr, bPend, bLine, bLsrOk>>
modVars == <<mpc, initStep, gpio, uart, proc_tx, proc_rx, loadRet, mmioLog, regsAtLoad,
            resLog, undo, banVars>>
txVars == <<tpc, txWho, txStr, txPend, txLine, txIn, lsrOk, wbuf, wcopied, wcount,
           wret>>
rxVars == <<rpc, count, timeout, i, q, kbuf, taken, touched, out, rret, retAt,
           sawData, fifoAtEntry, ppos, hasPrev, prevRet>>
cmpVars == <<ref, wref, together>>
obsVars == <<sleeps, late, idleReads, arrived, cmpVars>>
vars == <<hwVars, modVars, txVars, rxVars, mode, obsVars>>

\* the sleeps of a read are counted
Metered == mode = "tick"

\* a tx-node write and an rx-node read are run alone first and then at the
\* same time, with the same arguments against the same line input
Concurrent == mode = "conc"

\* the read has run alone: its line input is delivered again for the read
\* that runs together with the write
Replay == Concurrent /\ ref # <<>>

\* a handler may be in progress whenever its node exists: from its
\* proc_create in uart_driver_init until its proc_remove
Overlap == mode = "overlap"

(***************************************************************************)
(* Registers.                                                              *)
(***************************************************************************)
GpioRegs == {"GPFSEL1", "GPPUPPDN0"}
UartRegs == {"ENABLES", "MU_IER", "MU_LCR", "MU_MCR", "MU_CNTL", "MU_BAUD"}
Regs == GpioRegs \cup UartRegs

\* register contents before the first load: every bit clear, every bit set
RegInitVals == {Word(0), BitNot(Word(0))}

\* readl(): the word a register holds
readl(r) == Unpack(regs[r])

\* MU_LSR as the hardware presents it: bit 0 = data ready, bit 5 = TX space
MU_LSR ==
    [k \in WordBits |->
        IF k = 0 THEN (IF rxFifo # <<>> THEN 1 ELSE 0)
        ELSE IF k = 5 THEN (IF txSpace THEN 1 ELSE 0)
        ELSE 0]

\* the receiver is clocked and enabled (ENABLES bit 0, MU_CNTL bit 0)
RxEnabled == readl("ENABLES")[0] = 1 /\ readl("MU_CNTL")[0] = 1

\* the moments of a read at which the line delivers a byte: before the
\* first sleeps of the first-byte wait and around its last one, and in the
\* drain loop at the start and at the end of a quiet period
ArrivalTick ==
    CASE rpc = "wait" ->
           timeout \in {FIRST_BYTE_TIMEOUT, FIRST_BYTE_TIMEOUT - 1, 1, 0}
      [] rpc \in {"outer", "inner", "recv", "tail", "sleep"} ->
           q \in {0, 1, MAX_CONSECUTIVE_NO_DATA - 1}
      [] OTHER -> TRUE

\* another thread of the driver is running: a write, or the module thread on
\* its way through uart_driver_init or uart_driver_exit (it stands still
\* while loaded, and in proc_remove(proc_rx) for as long as a read runs)
OthersBusy ==
    \/ Concurrent /\ tpc # "idle"
    \/ Overlap /\ (tpc # "idle" \/ mpc \notin {"unloaded", "running", "exit_remove_rx"})

\* the other threads are explored around the same moments of the read: they
\* start at one of them, and while one of them is running the read does not
\* sleep on to a moment that differs from them in the count of sleeps only
SleepHold(sleeping, nextTick) == OthersBusy /\ sleeping /\ ~nextTick

\* bytes seen on the line by the receiver
LineBytes == {NUL, LF, CR, 233}

\* bytes seen on the line while the handlers overlap the module thread
OverlapBytes == {97}

\* the bytes of a long unbroken stream
FloodBytes == {97}

\* the moments at which a long stream delivers its next byte: just in time
\* for the next poll of a read with a large count
FloodTick ==
    CASE rpc = "wait" -> timeout = FIRST_BYTE_TIMEOUT
      [] rpc = "inner" -> q = 0
      [] OTHER -> FALSE

\* the next byte of a long stream is due
FloodReady ==
    /\ mpc = "running" /\ tpc = "idle"
    /\ count = BigCount
    /\ FloodTick
    /\ rxFifo = <<>>
    /\ IF flood THEN lineLeft > 0 ELSE lineLeft = MaxLine

\* a long stream is unbroken: once it has begun, its next byte is in the RX
\* FIFO before the driver polls again
LineFirst == flood /\ FloodReady

\* the bytes of an endless stream
StreamBytes == {NUL, 97}

\* an endless stream has begun and its next byte is due: it keeps the RX
\* FIFO non-empty at every poll of the driver
StreamFirst == mode = "stream" /\ flood /\ rxFifo = <<>>

(***************************************************************************)
(* uart_init_os: the bring-up sequence, one MMIO access per step.          *)
(***************************************************************************)
\* (mutant) the two function-select fields are not cleared before the OR
GpfselValue_noclear(val) ==
    BitOr(val, BitOr(Shl(Word(GPIO_FSEL_ALT5), 12), Shl(Word(GPIO_FSEL_ALT5), 15)))

\* val &= ~((7 << 12) | (7 << 15)); val |= (ALT5 << 12) | (ALT5 << 15)
GpfselValue(val) ==
    BitOr(BitAnd(val, BitNot(BitOr(Shl(Word(7), 12), Shl(Word(7), 15)))),
          BitOr(Shl(Word(GPIO_FSEL_ALT5), 12), Shl(Word(GPIO_FSEL_ALT5), 15)))

\* val &= ~((0x3 << 28) | (0x3 << 30)); val |= (NONE << 28) | (UP << 30)
GppuppdnValue(val) ==
    BitOr(BitAnd(val, BitNot(BitOr(Shl(Word(3), 28), Shl(Word(3), 30)))),
          BitOr(Shl(Word(GPIO_PUPDN_NONE), 28), Shl(Word(GPIO_PUPDN_UP), 30)))

\* writel(val | 0x1, &uart->ENABLES)
EnablesValue(val) == BitOr(val, Word(1))

\* u16 baud_val = (500000000/(9600*8))-1
BaudValue == Low16(Word((500000000 \div (9600 * 8)) - 1))

InitSteps == Len(<<"GPFSEL1", "GPPUPPDN0", "delay", "ENABLES", "MU_CNTL", "MU_IER", "MU_IIR", "MU_IIR",
               "MU_LCR", "MU_MCR", "MU_BAUD", "MU_CNTL", "wmb">>)

\* (mutant) TX and RX are enabled before the baud divisor is programmed
InitAccess_swapped(k, r) ==
    CASE k = 1 -> <<"GPFSEL1", GpfselValue(r["GPFSEL1"])>>
      [] k = 2 -> <<"GPPUPPDN0", GppuppdnValue(r["GPPUPPDN0"])>>
      [] k = 3 -> <<"delay", Word(150)>>
      [] k = 4 -> <<"ENABLES", EnablesValue(r["ENABLES"])>>
      [] k = 5 -> <<"MU_CNTL", Word(0)>>
      [] k = 6 -> <<"MU_IER", Word(0)>>
      [] k = 7 -> <<"MU_IIR", Word(2)>>
      [] k = 8 -> <<"MU_IIR", Word(4)>>
      [] k = 9 -> <<"MU_LCR", Word(3)>>
      [] k = 10 -> <<"MU_MCR", Word(0)>>
      [] k = 11 -> <<"MU_CNTL", Word(3)>>
      [] k = 12 -> <<"MU_BAUD", BaudValue>>
      [] OTHER -> <<"wmb", Word(0)>>

\* the access made by statement k of uart_init_os: <<register, value>>;
\* "delay" is delay_cycles(150) and "wmb" the write barrier
InitAccess(k, r) ==
    CASE k = 1 -> <<"GPFSEL1", GpfselValue(r["GPFSEL1"])>>
      [] k = 2 -> <<"GPPUPPDN0", GppuppdnValue(r["GPPUPPDN0"])>>
      [] k = 3 -> <<"delay", Word(150)>>
      [] k = 4 -> <<"ENABLES", EnablesValue(r["ENABLES"])>>
      [] k = 5 -> <<"MU_CNTL", Word(0)>>
      [] k = 6 -> <<"MU_IER", Word(0)>>
      [] k = 7 -> <<"MU_IIR", Word(2)>>
      [] k = 8 -> <<"MU_IIR", Word(4)>>
      [] k = 9 -> <<"MU_LCR", Word(3)>>
      [] k = 10 -> <<"MU_MCR", Word(0)>>
      [] k = 11 -> <<"MU_BAUD", BaudValue>>
      [] k = 12 -> <<"MU_CNTL", Word(3)>>
      [] OTHER -> <<"wmb", Word(0)>>

(***************************************************************************)
(* Strings.                                                                *)
(***************************************************************************)
\* "Mini UART driver loaded successfully!\r\n"
LoadBanner ==
    <<77, 105, 110, 105, 32, 85, 65, 82, 84, 32, 100, 114, 105, 118, 101,
      114, 32, 108, 111, 97, 100, 101, 100, 32, 115, 117, 99, 99, 101, 115,
      115, 102, 117, 108, 108, 121, 33, 13, 10>>

\* "Mini UART driver unloading...\r\n"
UnloadBanner ==
    <<77, 105, 110, 105, 32, 85, 65, 82, 84, 32, 100, 114, 105, 118, 101,
      114, 32, 117, 110, 108, 111, 97, 100, 105, 110, 103, 46, 46, 46, 13,
      10>>

\* the sequences over S of length at most n
SeqsUpTo(S, n) == UNION {[1..m -> S] : m \in 0..n}

\* bytes a caller puts into a tx-node payload
TxBytes == {NUL, LF, 97}
Payloads == SeqsUpTo(TxBytes, MaxPayload)

Min(a, b) == IF a < b THEN a ELSE b

IsPrefix(a, b) == Len(a) <= Len(b) /\ SubSeq(b, 1, Len(a)) = a

\* long payloads: LongLen bytes, 'a' up to the capacity of kbuf, 'b' beyond
\* it; the last byte that fits is 'a' or a line feed
LongPayloads ==
    {[k \in 1..LongLen |->
         IF k < KBUF_SIZE - 1 THEN 97 ELSE IF k = KBUF_SIZE - 1 THEN b ELSE 98] :
       b \in {97, LF}}

\* a long payload is written on a line that has been quiet so far
LongWriteReady == lineLeft = MaxLine /\ rxFifo = <<>> /\ ~hasPrev /\ ppos = 0

\* the payloads of the writes that run concurrently with another thread
ConcPayloads == {<<b>> : b \in TxBytes}

\* a buffer as the C string it holds: the bytes before the first NUL
RECURSIVE CStr(_)
CStr(s) == IF s = <<>> \/ Head(s) = NUL THEN <<>> ELSE <<Head(s)>> \o CStr(Tail(s))

(***************************************************************************)
(* Initial state: module not loaded, nothing mapped, line silent.          *)
(***************************************************************************)
InitIn(m) ==
    /\ mode = m
    /\ sleeps = <<0, 0>>
    /\ late = FALSE
    /\ idleReads = <<>>
    /\ arrived = <<>>
    /\ ref = <<>>
    /\ wref = <<>>
    /\ together = FALSE
    /\ \E v \in RegInitVals : regs = [r \in Regs |-> Pack(v)]
    /\ rxFifo = <<>>
    /\ txSpace = TRUE
    /\ lineLeft = MaxLine
    /\ flood = FALSE
    /\ mpc = "unloaded"
    /\ initStep = 0
    /\ gpio = FALSE
    /\ uart = FALSE
    /\ proc_tx = FALSE
    /\ proc_rx = FALSE
    /\ loadRet = 0
    /\ mmioLog = <<>>
    /\ regsAtLoad = regs
    /\ resLog = <<>>
    /\ undo = <<>>
    /\ bpc = "idle"
    /\ bStr = <<>>
    /\ bPend = <<>>
    /\ bLine = <<>>
    /\ bLsrOk = FALSE
    /\ tpc = "idle"
    /\ txWho = "none"
    /\ txStr = <<>>
    /\ txPend = <<>>
    /\ txLine = <<>>
    /\ txIn = <<>>
    /\ lsrOk = FALSE
    /\ wbuf = <<>>
    /\ wcopied = FALSE
    /\ wcount = 0
    /\ wret = 0
    /\ rpc = "idle"
    /\ count = 0
    /\ timeout = 0
    /\ i = 0
    /\ q = 0
    /\ kbuf = <<>>
    /\ taken = <<>>
    /\ touched = FALSE
    /\ out = <<>>
    /\ rret = 0
    /\ retAt = "none"
    /\ sawData = FALSE
    /\ fifoAtEntry = <<>>
    /\ ppos = 0
    /\ hasPrev = FALSE
    /\ prevRet = 0

Init == InitIn("serial")

(***************************************************************************)
(* Environment: the serial line and the transmitter.                       *)
(***************************************************************************)
\* a byte arrives on the line and enters the RX FIFO
\* (explored while the driver runs and no transmission is in progress, and
\* during a read at the ticks of ArrivalTick; between the reads only, when
\* the handlers overlap the module thread or are run alone and then
\* together: there the line delivers, before the read that runs together
\* with a write, what the RX FIFO held for the read that ran alone)
LineArrive ==
    /\ lineLeft > 0 \/ Replay
    /\ mpc = "running" /\ tpc = "idle"
    /\ (Overlap \/ Concurrent) => rpc = "idle"
    /\ Replay => (wref # <<>> /\ ~together)
    /\ ArrivalTick
    /\ ~flood
    /\ RxEnabled
    /\ \E b \in IF Overlap THEN OverlapBytes ELSE LineBytes :
         /\ Replay => IsPrefix(Append(rxFifo, b), ref[2])
         /\ rxFifo' = Append(rxFifo, b)
         /\ arrived' = IF rpc # "idle" THEN Append(arrived, b) ELSE arrived
    /\ lineLeft' = IF Replay THEN lineLeft ELSE lineLeft - 1
    /\ UNCHANGED <<regs, txSpace, flood, modVars, txVars, rxVars>>
    /\ late' = (late \/ (Metered /\ rpc \in {"outer", "inner", "recv", "tail", "sleep"}))
    /\ UNCHANGED <<mode, sleeps, idleReads, cmpVars>>

\* a long unbroken stream of FloodLen bytes (instead of the short input of
\* LineArrive): its next byte enters the empty RX FIFO
LineFlood ==
    /\ FloodReady
    /\ RxEnabled
    /\ \E b \in FloodBytes :
         /\ rxFifo' = <<b>>
         /\ arrived' = IF rpc # "idle" THEN Append(arrived, b) ELSE arrived
    /\ flood' = TRUE
    /\ lineLeft' = (IF flood THEN lineLeft ELSE FloodLen) - 1
    /\ UNCHANGED <<regs, txSpace, modVars, txVars, rxVars>>
    /\ UNCHANGED <<mode, sleeps, late, idleReads, cmpVars>>

\* an endless stream: its next byte enters the empty RX FIFO
LineStream ==
    /\ mode = "stream"
    /\ mpc = "running" /\ tpc = "idle"
    /\ RxEnabled
    /\ rxFifo = <<>>
    /\ \E b \in StreamBytes : rxFifo' = <<b>>
    /\ flood' = TRUE
    /\ UNCHANGED <<regs, txSpace, lineLeft, modVars, txVars, rxVars, mode, obsVars>>

\* the transmitter shifts a byte out: the TX FIFO has space again
TxFifoDrain ==
    /\ ~txSpace
    /\ txSpace' = TRUE
    /\ UNCHANGED <<regs, rxFifo, lineLeft, flood, modVars, txVars, rxVars>>
    /\ UNCHANGED <<mode, obsVars>>

(***************************************************************************)
(* TX path.                                                                *)
(***************************************************************************)
\* uart_send_char(c): the bytes its body writes to MU_IO, in order; each is
\* written by one spin on MU_LSR followed by one writel
RECURSIVE uart_send_char(_)
uart_send_char(c) ==
    IF c = LF THEN uart_send_char(CR) \o <<c>> ELSE <<c>>

\* one iteration of the loop of uart_send_string on character c = *s
SendStringCalls(c) ==
    (IF c = LF THEN uart_send_char(CR) ELSE <<>>) \o uart_send_char(c)

\* (mutant) the byte is written without waiting for space in the TX FIFO
TxReady_nowait(lsr) == TRUE

\* readl(&uart->MU_LSR) & (1 << 5)
TxReady(lsr) == BitAnd(lsr, LSR_TX_SPACE) # Zero

\* (u32)(c & 0xFF)
IoByte(c) == c % 256

\* the RX FIFO f after writel(c, &uart->MU_IO): a write to MU_IO goes to the
\* TX FIFO and leaves the RX FIFO as it is
MuIoWrite(f, c) == f

\* (mutant) kbuf is one static array shared by the two handlers: the string
\* the write handler stores lands in the buffer of the read in progress
ReadKbuf_static(rk, w) ==
    IF Len(rk) <= Len(w)
    THEN SubSeq(w, 1, Len(rk))
    ELSE w \o SubSeq(rk, Len(w) + 1, Len(rk))

\* the kbuf of uart_proc_read after uart_proc_write stored the string w in its
\* kbuf (copy_from_user, kbuf[len] = '\0'): each handler declares its own
\* automatic array char kbuf[256], so that of the read keeps its content rk
ReadKbuf(rk, w) == rk

\* (mutant) the write is not truncated
WriteLen_all(n) == n

\* len = min(count, sizeof(kbuf) - 1)
WriteLen(n) == Min(n, KBUF_SIZE - 1)

\* (mutant) the write reports the truncated length
WriteRet_len(n, len) == len

\* return count: the value a write returns after uart_send_string
WriteRet(n, len) == n

\* entry of uart_send_string(s) from the handler who
StartSend(who, s) ==
    /\ tpc' = "str"
    /\ txWho' = who
    /\ txStr' = s
    /\ txIn' = s
    /\ txPend' = <<>>
    /\ txLine' = <<>>
    /\ lsrOk' = FALSE

\* while (*s) { if (*s == '\n') uart_send_char('\r'); uart_send_char(*s++); }
uart_send_string ==
    /\ tpc = "str"
    /\ IF Head(txStr) = NUL
       THEN /\ tpc' = "ret"
            /\ UNCHANGED <<txStr, txPend>>
       ELSE /\ txPend' = SendStringCalls(Head(txStr))
            /\ txStr' = Tail(txStr)
            /\ tpc' = "spin"
    /\ wret' = IF Head(txStr) = NUL /\ txWho = "write"
               THEN WriteRet(wcount, WriteLen(wcount))
               ELSE wret
    /\ UNCHANGED <<txWho, txLine, txIn, lsrOk, wbuf, wcopied, wcount>>
    /\ UNCHANGED <<hwVars, modVars, rxVars>>
    /\ UNCHANGED <<mode, obsVars>>

\* while (!(readl(&uart->MU_LSR) & (1 << 5))) { }
uart_send_char_spin ==
    /\ tpc = "spin"
    /\ lsrOk' = (MU_LSR[5] = 1)
    /\ tpc' = IF TxReady(MU_LSR) THEN "io" ELSE "spin"
    /\ UNCHANGED <<txWho, txStr, txPend, txLine, txIn, wbuf, wcopied, wcount, wret>>
    /\ UNCHANGED <<hwVars, modVars, rxVars>>
    /\ UNCHANGED <<mode, obsVars>>

\* writel((u32)(c & 0xFF), &uart->MU_IO)
uart_send_char_io ==
    /\ tpc = "io"
    /\ txLine' = Append(txLine, IoByte(Head(txPend)))
    /\ txPend' = Tail(txPend)
    /\ tpc' = IF Tail(txPend) = <<>> THEN "str" ELSE "spin"
    /\ lsrOk' = FALSE
    /\ txSpace' \in BOOLEAN
    /\ rxFifo' = MuIoWrite(rxFifo, IoByte(Head(txPend)))
    /\ UNCHANGED <<txWho, txStr, txIn, wbuf, wcopied, wcount, wret>>
    /\ UNCHANGED <<regs, lineLeft, flood, modVars, rxVars>>
    /\ UNCHANGED <<mode, obsVars>>

\* uart_proc_write(file, buf, count, ppos): copy_from_user, kbuf[len] = '\0',
\* uart_send_string(kbuf); a failed copy returns -EFAULT at once (a copy of
\* len = 0 bytes cannot fail).  The handler can be entered while its node
\* exists; one call at a time is explored, in the scenarios other than
\* "overlap" while the module thread stands still.  In the scenario "conc"
\* the write runs alone once the read has run alone, and then with the same
\* payload while the read runs again; both times the caller's buffer can be
\* read
uart_proc_write ==
    /\ proc_tx
    /\ tpc = "idle"
    /\ IF Overlap
       THEN ArrivalTick
       ELSE /\ mpc = "running"
            /\ IF Concurrent
               THEN \/ ref # <<>> /\ wref = <<>> /\ rpc = "idle"
                    \/ together /\ ArrivalTick
               ELSE rpc = "idle"
    /\ \E buf \in IF together THEN {wref[1]}
                  ELSE IF Concurrent \/ Overlap THEN ConcPayloads
                  ELSE Payloads \cup (IF LongWriteReady THEN LongPayloads ELSE {}) :
       \E copied \in IF WriteLen(Len(buf)) = 0 \/ Concurrent THEN {TRUE} ELSE BOOLEAN :
         /\ wbuf' = buf
         /\ wcopied' = copied
         /\ wcount' = Len(buf)
         /\ IF copied
            THEN /\ StartSend("write", SubSeq(buf, 1, WriteLen(Len(buf))) \o <<NUL>>)
                 /\ kbuf' = ReadKbuf(kbuf, SubSeq(buf, 1, WriteLen(Len(buf))) \o <<NUL>>)
                 /\ wret' = wret
            ELSE /\ tpc' = "ret"
                 /\ txWho' = "write"
                 /\ wret' = -EFAULT
                 /\ txLine' = <<>>
                 /\ txIn' = <<>>
                 /\ UNCHANGED <<txStr, txPend, lsrOk, kbuf>>
    /\ UNCHANGED <<rpc, count, timeout, i, q, taken, touched, out, rret, retAt,
                   sawData, fifoAtEntry, ppos, hasPrev, prevRet>>
    /\ UNCHANGED <<hwVars, modVars>>
    /\ UNCHANGED <<mode, obsVars>>

\* the locals of the TX path after a return
TxIdle ==
    /\ tpc' = "idle"
    /\ txWho' = "none"
    /\ txStr' = <<>>
    /\ txPend' = <<>>
    /\ txLine' = <<>>
    /\ txIn' = <<>>
    /\ lsrOk' = FALSE
    /\ wbuf' = <<>>
    /\ wcopied' = FALSE
    /\ wcount' = 0
    /\ wret' = 0

\* uart_proc_write has returned to its caller (what the write that ran alone
\* was given, wrote to MU_IO and returned is kept for the comparison)
uart_proc_write_return ==
    /\ tpc = "ret" /\ txWho = "write"
    /\ TxIdle
    /\ UNCHANGED <<hwVars, modVars, rxVars>>
    /\ wref' = IF Concurrent /\ wref = <<>> THEN <<wbuf, txLine, wret>> ELSE wref
    /\ UNCHANGED <<mode, sleeps, late, idleReads, arrived, ref, together>>

(***************************************************************************)
(* uart_send_string in the module thread: the banners of uart_driver_init  *)
(* and uart_driver_exit.                                                   *)
(***************************************************************************)
\* entry of uart_send_string(s)
BannerStart(s) ==
    /\ bpc' = "str"
    /\ bStr' = s
    /\ bPend' = <<>>
    /\ bLine' = <<>>
    /\ bLsrOk' = FALSE

\* the locals of the call after its return
BannerIdle ==
    /\ bpc' = "idle"
    /\ bStr' = <<>>
    /\ bPend' = <<>>
    /\ bLine' = <<>>
    /\ bLsrOk' = FALSE

\* while (*s) { if (*s == '\n') uart_send_char('\r'); uart_send_char(*s++); }
banner_send_string ==
    /\ bpc = "str"
    /\ IF Head(bStr) = NUL
       THEN /\ bpc' = "ret"
            /\ UNCHANGED <<bStr, bPend>>
       ELSE /\ bPend' = SendStringCalls(Head(bStr))
            /\ bStr' = Tail(bStr)
            /\ bpc' = "spin"
    /\ UNCHANGED <<bLine, bLsrOk>>
    /\ UNCHANGED <<mpc, initStep, gpio, uart, proc_tx, proc_rx, loadRet, mmioLog,
                   regsAtLoad, resLog, undo>>
    /\ UNCHANGED <<hwVars, txVars, rxVars>>
    /\ UNCHANGED <<mode, obsVars>>

\* while (!(readl(&uart->MU_LSR) & (1 << 5))) { }
banner_send_char_spin ==
    /\ bpc = "spin"
    /\ bLsrOk' = (MU_LSR[5] = 1)
    /\ bpc' = IF TxReady(MU_LSR) THEN "io" ELSE "spin"
    /\ UNCHANGED <<bStr, bPend, bLine>>
    /\ UNCHANGED <<mpc, initStep, gpio, uart, proc_tx, proc_rx, loadRet, mmioLog,
                   regsAtLoad, resLog, undo>>
    /\ UNCHANGED <<hwVars, txVars, rxVars>>
    /\ UNCHANGED <<mode, obsVars>>

\* writel((u32)(c & 0xFF), &uart->MU_IO)
banner_send_char_io ==
    /\ bpc = "io"
    /\ bLine' = Append(bLine, IoByte(Head(bPend)))
    /\ bPend' = Tail(bPend)
    /\ bpc' = IF Tail(bPend) = <<>> THEN "str" ELSE "spin"
    /\ bLsrOk' = FALSE
    /\ txSpace' \in BOOLEAN
    /\ rxFifo' = MuIoWrite(rxFifo, IoByte(Head(bPend)))
    /\ UNCHANGED bStr
    /\ UNCHANGED <<mpc, initStep, gpio, uart, proc_tx, proc_rx, loadRet, mmioLog,
                   regsAtLoad, resLog, undo>>
    /\ UNCHANGED <<regs, lineLeft, flood, txVars, rxVars>>
    /\ UNCHANGED <<mode, obsVars>>

(***************************************************************************)
(* RX path.                                                                *)
(***************************************************************************)
\* uart_data_available(): readl(&uart->MU_LSR) & (1 << 0)
uart_data_available(lsr) == BitAnd(lsr, LSR_DATA_READY) # Zero

\* (mutant) the byte read from MU_IO is masked to 7 bits
uart_receive_char_7bit(avail, f) == IF ~avail THEN NUL ELSE Head(f) % 128

\* uart_receive_char() on RX FIFO f: NUL when no data is available,
\* otherwise (char)(readl(&uart->MU_IO) & 0xFF), the oldest byte of the FIFO
uart_receive_char(avail, f) == IF ~avail THEN NUL ELSE Head(f) % 256

\* (mutant) the gate is off by one
EofGate_off(pos) == pos > 1

\* if (*ppos > 0) return 0
EofGate(pos) == pos > 0

\* (mutant) the caller's count is not checked
RoomLeft_nocount(n, cnt) == n < KBUF_SIZE - 1

\* i < (sizeof(kbuf) - 1) && i < count
RoomLeft(n, cnt) == n < KBUF_SIZE - 1 /\ n < cnt

\* the value of timeout when the loop
\*   while (!uart_data_available() && timeout-- > 0)
\* is left: the decrement is evaluated only when no data is available
WaitExitTimeout(avail, t) == IF avail THEN t ELSE t - 1

\* if (timeout <= 0) return 0
WaitTimedOut(t) == t <= 0

\* (mutant) no byte is stored
Keep_never(c) == FALSE

\* (mutant) carriage returns are stripped on RX
Keep_stripcr(c) == c # 0 /\ c # CR

\* if (c != 0): the byte is stored
Keep(c) == c # 0

\* (mutant) the idle threshold is applied at twice its value
IdleLimit_twice(n) == n >= 2 * MAX_CONSECUTIVE_NO_DATA

\* consecutive_no_data >= MAX_CONSECUTIVE_NO_DATA
IdleLimit(n) == n >= MAX_CONSECUTIVE_NO_DATA

\* copy_to_user(buf, kbuf, n) that copied m of the n bytes (it returns the
\* number n - m of bytes it could not copy): the bytes the caller receives
copy_to_user(k, m) == SubSeq(k, 1, m)

\* (mutant) the cursor is advanced before the copy is checked
CursorAfter_always(pos, n, copied) == pos + n

\* *ppos after the copy of n bytes (advanced only past a successful copy)
CursorAfter(pos, n, copied) == IF copied THEN pos + n ELSE pos

\* the locals of uart_proc_read at the return statement `at` with value r
\* (timeout and consecutive_no_data are dead from here on and are cleared)
ReadRet(r, at) ==
    /\ rpc' = "ret"
    /\ rret' = r
    /\ retAt' = at
    /\ timeout' = 0
    /\ q' = 0

\* the count arguments of the reads explored
ReadCounts == (0..MaxCount) \cup {BigCount}

\* the count arguments of the reads that overlap the module thread
OverlapCounts == 0..MaxCount

\* entry of uart_proc_read(file, buf, count, ppos): if (*ppos > 0) return 0.
\* The handler can be entered while its node exists; one call at a time is
\* explored (one call in all where the sleeps are counted or other threads
\* run), in the scenarios other than "overlap" while the module thread
\* stands still.  In the scenario "conc" the read runs alone first, and then
\* with the same count, on a new cursor, while the write runs
uart_proc_read ==
    /\ proc_rx
    /\ rpc = "idle"
    /\ Overlap \/ (mpc = "running" /\ (tpc = "idle" \/ together))
    /\ (Metered \/ Concurrent \/ Overlap) => ~hasPrev
    /\ \E c \in IF together THEN {ref[1]}
                ELSE IF Overlap THEN OverlapCounts
                ELSE ReadCounts : count' = c
    /\ i' = 0
    /\ kbuf' = <<>>
    /\ taken' = <<>>
    /\ touched' = FALSE
    /\ out' = <<>>
    /\ sawData' = FALSE
    /\ fifoAtEntry' = rxFifo
    /\ IF EofGate(ppos)
       THEN ReadRet(0, "gate")
       ELSE /\ rpc' = "wait"
            /\ rret' = 0
            /\ retAt' = "none"
            /\ q' = 0
            /\ timeout' = FIRST_BYTE_TIMEOUT
    /\ UNCHANGED <<ppos, hasPrev, prevRet>>
    /\ UNCHANGED <<hwVars, modVars, txVars>>
    /\ sleeps' = <<0, 0>>
    /\ late' = FALSE
    /\ idleReads' = <<>>
    /\ arrived' = <<>>
    /\ UNCHANGED <<mode, cmpVars>>

\* while (!uart_data_available() && timeout-- > 0) udelay(1000);
\* if (timeout <= 0) return 0;
read_wait ==
    /\ rpc = "wait"
    /\ ~StreamFirst
    /\ ~SleepHold(~uart_data_available(MU_LSR) /\ timeout > 0,
                  timeout - 1 \in {FIRST_BYTE_TIMEOUT - 1, 1, 0})
    /\ ~LineFirst
    /\ touched' = TRUE
    /\ sawData' = (MU_LSR[0] = 1)
    /\ LET avail == uart_data_available(MU_LSR)
           t == WaitExitTimeout(avail, timeout)
       IN IF ~avail /\ timeout > 0
          THEN /\ timeout' = timeout - 1
               /\ UNCHANGED <<rpc, rret, retAt, q>>
          ELSE IF WaitTimedOut(t)
               THEN ReadRet(0, "wait")
               ELSE /\ rpc' = "outer"
                    /\ timeout' = 0
                    /\ UNCHANGED <<rret, retAt, q>>
    /\ UNCHANGED <<count, i, kbuf, taken, out, fifoAtEntry, ppos, hasPrev, prevRet>>
    /\ UNCHANGED <<hwVars, modVars, txVars>>
    /\ sleeps' = IF Metered /\ ~uart_data_available(MU_LSR) /\ timeout > 0
                 THEN <<sleeps[1] + 1, sleeps[2]>>
                 ELSE sleeps
    /\ UNCHANGED <<mode, late, idleReads, arrived, cmpVars>>

\* while (i < (sizeof(kbuf) - 1) && i < count)
read_outer ==
    /\ rpc = "outer"
    /\ rpc' = IF RoomLeft(i, count) THEN "inner" ELSE "fin"
    /\ UNCHANGED <<count, timeout, i, q, kbuf, taken, touched, out, rret, retAt,
                   sawData, fifoAtEntry, ppos, hasPrev, prevRet>>
    /\ UNCHANGED <<hwVars, modVars, txVars>>
    /\ UNCHANGED <<mode, obsVars>>

\* while (uart_data_available() && i < (sizeof(kbuf) - 1) && i < count)
read_inner ==
    /\ rpc = "inner"
    /\ ~StreamFirst
    /\ ~LineFirst
    /\ rpc' = IF uart_data_available(MU_LSR) /\ RoomLeft(i, count) THEN "recv" ELSE "tail"
    /\ UNCHANGED <<count, timeout, i, q, kbuf, taken, touched, out, rret, retAt,
                   sawData, fifoAtEntry, ppos, hasPrev, prevRet>>
    /\ UNCHANGED <<hwVars, modVars, txVars>>
    /\ UNCHANGED <<mode, obsVars>>

\* c = uart_receive_char(); if (c != 0) { kbuf[i++] = c; consecutive_no_data = 0; }
read_recv ==
    /\ rpc = "recv"
    /\ LET avail == uart_data_available(MU_LSR)
           c == uart_receive_char(avail, rxFifo)
       IN /\ rxFifo' = IF avail THEN Tail(rxFifo) ELSE rxFifo
          /\ taken' = IF avail /\ mode # "stream"
                       THEN Append(taken, Head(rxFifo))
                       ELSE taken
          /\ IF Keep(c)
             THEN /\ kbuf' = Append(kbuf, c)
                  /\ i' = i + 1
                  /\ q' = 0
             ELSE UNCHANGED <<kbuf, i, q>>
    /\ rpc' = "inner"
    /\ UNCHANGED <<count, timeout, touched, out, rret, retAt, sawData, fifoAtEntry,
                   ppos, hasPrev, prevRet>>
    /\ UNCHANGED <<regs, txSpace, lineLeft, flood, modVars, txVars>>
    /\ idleReads' =
          IF ~Metered \/ ~uart_data_available(MU_LSR) THEN idleReads
          ELSE IF q' = 0 THEN <<>>
          ELSE Append(idleReads, Head(rxFifo))
    /\ UNCHANGED <<mode, sleeps, late, arrived, cmpVars>>

\* if (i > 0 && !uart_data_available()) { udelay(1000); ... }
\* else if (i == 0 && !uart_data_available()) { udelay(1000); ... }:
\* the poll of MU_LSR, and the call of udelay when it shows no data
read_tail ==
    /\ rpc = "tail"
    /\ ~StreamFirst
    /\ ~SleepHold(~uart_data_available(MU_LSR),
                  q + 1 \in {1, MAX_CONSECUTIVE_NO_DATA - 1, MAX_CONSECUTIVE_NO_DATA})
    /\ rpc' = IF ~uart_data_available(MU_LSR) THEN "sleep" ELSE "outer"
    /\ UNCHANGED <<count, timeout, i, q, kbuf, taken, touched, out, rret, retAt,
                   sawData, fifoAtEntry, ppos, hasPrev, prevRet>>
    /\ UNCHANGED <<hwVars, modVars, txVars>>
    /\ sleeps' = IF Metered /\ ~uart_data_available(MU_LSR)
                 THEN <<sleeps[1], sleeps[2] + 1>>
                 ELSE sleeps
    /\ UNCHANGED <<mode, late, idleReads, arrived, cmpVars>>

\* udelay(1000) is over: consecutive_no_data++;
\* if (consecutive_no_data >= MAX_CONSECUTIVE_NO_DATA) break;
read_sleep ==
    /\ rpc = "sleep"
    /\ q' = q + 1
    /\ rpc' = IF IdleLimit(q + 1) THEN "fin" ELSE "outer"
    /\ UNCHANGED <<count, timeout, i, kbuf, taken, touched, out, rret, retAt,
                   sawData, fifoAtEntry, ppos, hasPrev, prevRet>>
    /\ UNCHANGED <<hwVars, modVars, txVars>>
    /\ UNCHANGED <<mode, obsVars>>

\* if (i == 0) return 0; kbuf[i] = '\0';
\* if (copy_to_user(buf, kbuf, i)) return -EFAULT; *ppos += i; return i;
\* (copy_to_user copies m <= i bytes, the bytes up to the first one the
\* caller's buffer cannot take, and fails when m < i; in the scenario "conc"
\* the caller's buffer takes them all)
read_fin ==
    /\ rpc = "fin"
    /\ IF i = 0
       THEN /\ ReadRet(0, "empty")
            /\ UNCHANGED <<kbuf, out, ppos>>
       ELSE /\ kbuf' = Append(kbuf, NUL)
            /\ \E m \in IF Concurrent THEN {i} ELSE 0..i :
                 /\ ppos' = CursorAfter(ppos, i, m = i)
                 /\ out' = copy_to_user(kbuf', m)
                 /\ IF m = i
                    THEN ReadRet(i, "ok")
                    ELSE ReadRet(-EFAULT, "fault")
    /\ UNCHANGED <<count, i, taken, touched, sawData, fifoAtEntry, hasPrev, prevRet>>
    /\ UNCHANGED <<hwVars, modVars, txVars>>
    /\ UNCHANGED <<mode, obsVars>>

\* uart_proc_read has returned to its caller (what the read that ran alone
\* was given, copied to its caller and returned is kept for the comparison)
uart_proc_read_return ==
    /\ rpc = "ret"
    /\ rpc' = "idle"
    /\ hasPrev' = TRUE
    /\ prevRet' = rret
    /\ count' = 0
    /\ i' = 0
    /\ kbuf' = <<>>
    /\ taken' = <<>>
    /\ touched' = FALSE
    /\ out' = <<>>
    /\ rret' = 0
    /\ retAt' = "none"
    /\ sawData' = FALSE
    /\ fifoAtEntry' = <<>>
    /\ UNCHANGED <<timeout, q, ppos>>
    /\ UNCHANGED <<hwVars, modVars, txVars>>
    /\ sleeps' = <<0, 0>>
    /\ late' = FALSE
    /\ idleReads' = <<>>
    /\ arrived' = <<>>
    /\ ref' = IF Concurrent /\ ref = <<>> THEN <<count, fifoAtEntry, out, rret>> ELSE ref
    /\ UNCHANGED <<mode, wref, together>>

\* the caller closes the rx node and opens it again: a new cursor at 0
\* (in the scenario "conc" once both calls have run alone and the RX FIFO
\* holds again what the read that ran alone found; the calls run together
\* from here on)
Reopen ==
    /\ mpc = "running" /\ proc_rx
    /\ rpc = "idle" /\ tpc = "idle"
    /\ hasPrev
    /\ Concurrent => (wref # <<>> /\ ~together /\ rxFifo = ref[2])
    /\ ppos' = 0
    /\ hasPrev' = FALSE
    /\ prevRet' = 0
    /\ UNCHANGED <<rpc, count, timeout, i, q, kbuf, taken, touched, out, rret, retAt,
                   sawData, fifoAtEntry>>
    /\ UNCHANGED <<hwVars, modVars, txVars>>
    /\ together' = Concurrent
    /\ UNCHANGED <<mode, sleeps, late, idleReads, arrived, ref, wref>>

(***************************************************************************)
(* Module lifecycle.                                                       *)
(***************************************************************************)
\* the elements of a sequence
Range(s) == {s[k] : k \in 1..Len(s)}

\* (mutant) the failure of the rx node creation forgets the tx node
Rollback_leak(point) ==
    CASE point = "ioremap_gpio" -> <<>>
      [] point = "ioremap_uart" -> <<"iounmap_gpio">>
      [] point = "proc_create_tx" -> <<"iounmap_uart", "iounmap_gpio">>
      [] OTHER -> <<"iounmap_uart", "iounmap_gpio">>

\* the releases uart_driver_init makes before it returns -ENOMEM from the
\* failure of the call `point`, in order
Rollback(point) ==
    CASE point = "ioremap_gpio" -> <<>>
      [] point = "ioremap_uart" -> <<"iounmap_gpio">>
      [] point = "proc_create_tx" -> <<"iounmap_uart", "iounmap_gpio">>
      [] OTHER -> <<"proc_remove_tx", "iounmap_uart", "iounmap_gpio">>

\* uart_driver_init fails at the call `point`: the releases it has still to
\* make; with none to make it returns -ENOMEM at once
LoadFail(point, log) ==
    /\ resLog' = log
    /\ undo' = Rollback(point)
    /\ IF Rollback(point) = <<>>
       THEN /\ mpc' = "unloaded"
            /\ loadRet' = -ENOMEM
       ELSE /\ mpc' = "fail"
            /\ loadRet' = loadRet
    /\ UNCHANGED <<gpio, uart, proc_tx, proc_rx>>

\* the next release of a failing uart_driver_init; after the last one it
\* returns -ENOMEM.  proc_remove returns when no call of the node's handler
\* is in progress
LoadUndo ==
    /\ mpc = "fail"
    /\ Head(undo) = "proc_remove_tx" => tpc = "idle"
    /\ resLog' = Append(resLog, Head(undo))
    /\ proc_tx' = (proc_tx /\ Head(undo) # "proc_remove_tx")
    /\ uart' = (uart /\ Head(undo) # "iounmap_uart")
    /\ gpio' = (gpio /\ Head(undo) # "iounmap_gpio")
    /\ undo' = Tail(undo)
    /\ IF Tail(undo) = <<>>
       THEN /\ mpc' = "unloaded"
            /\ loadRet' = -ENOMEM
       ELSE UNCHANGED <<mpc, loadRet>>
    /\ UNCHANGED <<initStep, proc_rx, mmioLog, regsAtLoad, banVars>>
    /\ UNCHANGED <<hwVars, txVars, rxVars>>
    /\ UNCHANGED <<mode, obsVars>>

\* gpio = ioremap(GPIO_BASE, 0x1000); if (!gpio) return -ENOMEM
LoadMapGpio ==
    /\ mpc = "unloaded"
    /\ \E ok \in BOOLEAN :
         IF ok
         THEN /\ gpio' = TRUE
              /\ mpc' = "map_uart"
              /\ loadRet' = 0
              /\ resLog' = <<"ioremap_gpio">>
              /\ UNCHANGED <<uart, proc_tx, proc_rx, undo>>
         ELSE LoadFail("ioremap_gpio", <<>>)
    /\ mmioLog' = <<>>
    /\ UNCHANGED <<initStep, regsAtLoad, banVars>>
    /\ UNCHANGED <<hwVars, txVars, rxVars>>
    /\ UNCHANGED <<mode, obsVars>>

\* uart = ioremap(AUX_BASE, ...); if (!uart) { iounmap(gpio); return -ENOMEM; }
LoadMapUart ==
    /\ mpc = "map_uart"
    /\ \E ok \in BOOLEAN :
         IF ok
         THEN /\ uart' = TRUE
              /\ mpc' = "bringup"
              /\ initStep' = 1
              /\ resLog' = Append(resLog, "ioremap_uart")
              /\ UNCHANGED <<gpio, proc_tx, proc_rx, loadRet, undo>>
         ELSE /\ LoadFail("ioremap_uart", resLog)
              /\ UNCHANGED initStep
    /\ UNCHANGED <<mmioLog, regsAtLoad, banVars>>
    /\ UNCHANGED <<hwVars, txVars, rxVars>>
    /\ UNCHANGED <<mode, obsVars>>

\* one statement of uart_init_os
uart_init_os ==
    /\ mpc = "bringup"
    /\ LET acc == InitAccess(initStep, [r \in Regs |-> readl(r)])
       IN /\ mmioLog' = IF acc[1] = "delay"
                        THEN mmioLog
                        ELSE Append(mmioLog, <<acc[1], Pack(acc[2])>>)
          /\ regs' = IF acc[1] \in Regs
                     THEN [regs EXCEPT ![acc[1]] = Pack(acc[2])]
                     ELSE regs
          \* MU_IIR write: bit 1 clears the RX FIFO, bit 2 the TX FIFO
          /\ rxFifo' = IF acc[1] = "MU_IIR" /\ acc[2][1] = 1 THEN <<>> ELSE rxFifo
          /\ txSpace' = IF acc[1] = "MU_IIR" /\ acc[2][2] = 1 THEN TRUE ELSE txSpace
    /\ IF initStep = InitSteps
       THEN /\ mpc' = "create_tx"
            /\ initStep' = 0
            /\ regsAtLoad' = regs'
       ELSE /\ mpc' = mpc
            /\ initStep' = initStep + 1
            /\ regsAtLoad' = regsAtLoad
    /\ UNCHANGED <<lineLeft, flood, gpio, uart, proc_tx, proc_rx, loadRet, resLog, undo,
                   banVars>>
    /\ UNCHANGED <<txVars, rxVars>>
    /\ UNCHANGED <<mode, obsVars>>

\* proc_tx = proc_create(PROC_UART_TX, ...); on failure unmap both regions
LoadCreateTx ==
    /\ mpc = "create_tx"
    /\ \E ok \in BOOLEAN :
         IF ok
         THEN /\ proc_tx' = TRUE
              /\ mpc' = "create_rx"
              /\ resLog' = Append(resLog, "proc_create_tx")
              /\ UNCHANGED <<gpio, uart, proc_rx, loadRet, undo>>
         ELSE LoadFail("proc_create_tx", resLog)
    /\ UNCHANGED <<initStep, mmioLog, regsAtLoad, banVars>>
    /\ UNCHANGED <<hwVars, txVars, rxVars>>
    /\ UNCHANGED <<mode, obsVars>>

\* proc_rx = proc_create(PROC_UART_RX, ...); on failure remove the tx node
\* and unmap both regions; on success send the banner
LoadCreateRx ==
    /\ mpc = "create_rx"
    /\ \E ok \in BOOLEAN :
         IF ok
         THEN /\ proc_rx' = TRUE
              /\ mpc' = "banner"
              /\ resLog' = resLog \o <<"proc_create_rx", "uart_send_string">>
              /\ BannerStart(LoadBanner \o <<NUL>>)
              /\ UNCHANGED <<gpio, uart, proc_tx, loadRet, undo>>
         ELSE /\ LoadFail("proc_create_rx", resLog)
              /\ UNCHANGED banVars
    /\ UNCHANGED <<initStep, mmioLog, regsAtLoad>>
    /\ UNCHANGED <<hwVars, txVars, rxVars>>
    /\ UNCHANGED <<mode, obsVars>>

\* the banner is out: uart_driver_init returns 0
LoadDone ==
    /\ mpc = "banner"
    /\ bpc = "ret"
    /\ BannerIdle
    /\ mpc' = "running"
    /\ loadRet' = 0
    /\ mmioLog' = <<>>
    /\ UNCHANGED <<initStep, gpio, uart, proc_tx, proc_rx, regsAtLoad, resLog, undo>>
    /\ UNCHANGED <<hwVars, txVars, rxVars>>
    /\ UNCHANGED <<mode, obsVars>>

\* uart_driver_exit: uart_send_string("Mini UART driver unloading...\r\n"),
\* whatever the handlers are doing (explored between the calls of the
\* handlers, and when they overlap the module thread at the ticks of
\* ArrivalTick; in the scenario "conc" once both calls have run alone, where
\* the RX FIFO holds bytes the line input of the read does not start with)
UnloadBannerStart ==
    /\ mpc = "running"
    /\ IF Overlap THEN ArrivalTick ELSE tpc = "idle" /\ rpc = "idle"
    /\ Concurrent => (wref # <<>> /\ ~together /\ ~IsPrefix(rxFifo, ref[2]))
    /\ mpc' = "exit_banner"
    /\ resLog' = Append(resLog, "uart_send_string")
    /\ BannerStart(UnloadBanner \o <<NUL>>)
    /\ UNCHANGED <<initStep, gpio, uart, proc_tx, proc_rx, loadRet, mmioLog, regsAtLoad,
                   undo>>
    /\ UNCHANGED <<hwVars, txVars, rxVars>>
    /\ UNCHANGED <<mode, obsVars>>

\* proc_remove(proc_tx): it returns when no uart_proc_write is in progress
UnloadRemoveTx ==
    /\ mpc = "exit_banner"
    /\ bpc = "ret"
    /\ tpc = "idle"
    /\ BannerIdle
    /\ proc_tx' = FALSE
    /\ resLog' = Append(resLog, "proc_remove_tx")
    /\ mpc' = "exit_remove_rx"
    /\ UNCHANGED <<initStep, gpio, uart, proc_rx, loadRet, mmioLog, regsAtLoad, undo>>
    /\ UNCHANGED <<hwVars, txVars, rxVars>>
    /\ UNCHANGED <<mode, obsVars>>

\* proc_remove(proc_rx): it returns when no uart_proc_read is in progress
UnloadRemoveRx ==
    /\ mpc = "exit_remove_rx"
    /\ rpc = "idle"
    /\ proc_rx' = FALSE
    /\ resLog' = Append(resLog, "proc_remove_rx")
    /\ mpc' = "exit_unmap"
    /\ UNCHANGED <<initStep, gpio, uart, proc_tx, loadRet, mmioLog, regsAtLoad, undo,
                   banVars>>
    /\ UNCHANGED <<hwVars, txVars, rxVars>>
    /\ UNCHANGED <<mode, obsVars>>

\* (mutant) uart_driver_exit unmaps the UART region only
ExitUnmaps_leak(u, g) == IF u THEN <<"iounmap_uart">> ELSE <<>>

\* if (uart) iounmap(uart); if (gpio) iounmap(gpio): the calls made
ExitUnmaps(u, g) ==
    (IF u THEN <<"iounmap_uart">> ELSE <<>>) \o (IF g THEN <<"iounmap_gpio">> ELSE <<>>)

\* the unmapping of uart_driver_exit
UnloadUnmap ==
    /\ mpc = "exit_unmap"
    /\ resLog' = resLog \o ExitUnmaps(uart, gpio)
    /\ uart' = (uart /\ "iounmap_uart" \notin Range(ExitUnmaps(uart, gpio)))
    /\ gpio' = (gpio /\ "iounmap_gpio" \notin Range(ExitUnmaps(uart, gpio)))
    /\ mpc' = "unloaded"
    /\ UNCHANGED <<initStep, proc_tx, proc_rx, loadRet, mmioLog, regsAtLoad, undo,
                   banVars>>
    /\ UNCHANGED <<hwVars, txVars, rxVars>>
    /\ UNCHANGED <<mode, obsVars>>

Next ==
    \/ LineArrive
    \/ LineFlood
    \/ TxFifoDrain
    \/ LoadMapGpio
    \/ LoadMapUart
    \/ uart_init_os
    \/ LoadCreateTx
    \/ LoadCreateRx
    \/ LoadUndo
    \/ banner_send_string
    \/ banner_send_char_spin
    \/ banner_send_char_io
    \/ LoadDone
    \/ uart_proc_write
    \/ uart_send_string
    \/ uart_send_char_spin
    \/ uart_send_char_io
    \/ uart_proc_write_return
    \/ uart_proc_read
    \/ read_wait
    \/ read_outer
    \/ read_inner
    \/ read_recv
    \/ read_tail
    \/ read_sleep
    \/ read_fin
    \/ uart_proc_read_return
    \/ Reopen
    \/ UnloadBannerStart
    \/ UnloadRemoveTx
    \/ UnloadRemoveRx
    \/ UnloadUnmap

Spec == Init /\ [][Next]_vars

(***************************************************************************)
(* Reads with their sleeps counted: one load of a peripheral whose         *)
(* registers are clear, then one read against the short line input.        *)
(***************************************************************************)
InitTick == InitIn("tick") /\ regs = [r \in Regs |-> Pack(Zero)]

NextTick ==
    \/ LineArrive
    \/ TxFifoDrain
    \/ LoadMapGpio
    \/ LoadMapUart
    \/ uart_init_os
    \/ LoadCreateTx
    \/ LoadCreateRx
    \/ LoadUndo
    \/ banner_send_string
    \/ banner_send_char_spin
    \/ banner_send_char_io
    \/ LoadDone
    \/ uart_proc_read
    \/ read_wait
    \/ read_outer
    \/ read_inner
    \/ read_recv
    \/ read_tail
    \/ read_sleep
    \/ read_fin
    \/ uart_proc_read_return

SpecTick == InitTick /\ [][NextTick]_vars

(***************************************************************************)
(* A read and a write run alone, one after the other, against the short    *)
(* line input.  Where the read left bytes in the RX FIFO the module is     *)
(* unloaded and loaded again (uart_init_os clears the RX FIFO); the line   *)
(* delivers the same input again, and the same read runs on a new cursor   *)
(* at the same time as writes of the same payload, their register accesses *)
(* interleaved.                                                            *)
(***************************************************************************)
InitConc == InitIn("conc") /\ regs = [r \in Regs |-> Pack(Zero)]

NextConc ==
    \/ LineArrive
    \/ Reopen
    \/ TxFifoDrain
    \/ LoadMapGpio
    \/ LoadMapUart
    \/ uart_init_os
    \/ LoadCreateTx
    \/ LoadCreateRx
    \/ LoadUndo
    \/ banner_send_string
    \/ banner_send_char_spin
    \/ banner_send_char_io
    \/ LoadDone
    \/ uart_proc_write
    \/ uart_send_string
    \/ uart_send_char_spin
    \/ uart_send_char_io
    \/ uart_proc_write_return
    \/ uart_proc_read
    \/ read_wait
    \/ read_outer
    \/ read_inner
    \/ read_recv
    \/ read_tail
    \/ read_sleep
    \/ read_fin
    \/ uart_proc_read_return
    \/ UnloadBannerStart
    \/ UnloadRemoveTx
    \/ UnloadRemoveRx
    \/ UnloadUnmap

SpecConc == InitConc /\ [][NextConc]_vars

(***************************************************************************)
(* Reads against an endless stream: the thread of the read keeps being     *)
(* scheduled and the stream keeps coming.                                  *)
(***************************************************************************)
InitLive == InitIn("stream") /\ regs = [r \in Regs |-> Pack(Zero)]

\* a step of the thread inside uart_proc_read (a poll of the drain loop never
\* finds the RX FIFO empty here, so that its udelay is not reached)
ReadStep ==
    \/ read_wait
    \/ read_outer
    \/ read_inner
    \/ read_recv
    \/ read_tail
    \/ read_fin

NextLive ==
    \/ LineStream
    \/ TxFifoDrain
    \/ LoadMapGpio
    \/ LoadMapUart
    \/ uart_init_os
    \/ LoadCreateTx
    \/ LoadCreateRx
    \/ LoadUndo
    \/ banner_send_string
    \/ banner_send_char_spin
    \/ banner_send_char_io
    \/ LoadDone
    \/ uart_proc_read
    \/ read_wait
    \/ read_outer
    \/ read_inner
    \/ read_recv
    \/ read_tail
    \/ read_fin
    \/ uart_proc_read_return

SpecLive ==
    InitLive /\ [][NextLive]_vars /\ WF_vars(ReadStep) /\ WF_vars(LineStream)

(***************************************************************************)
(* Loads and unloads with the handlers overlapping the module thread: a    *)
(* write and a read are entered whenever their node exists, while the      *)
(* banners are sent, while a failing load rolls back and while the nodes   *)
(* are removed; the register accesses of the three threads interleave.     *)
(***************************************************************************)
InitOverlap == InitIn("overlap") /\ regs = [r \in Regs |-> Pack(Zero)]

NextOverlap ==
    \/ LineArrive
    \/ TxFifoDrain
    \/ LoadMapGpio
    \/ LoadMapUart
    \/ uart_init_os
    \/ LoadCreateTx
    \/ LoadCreateRx
    \/ LoadUndo
    \/ banner_send_string
    \/ banner_send_char_spin
    \/ banner_send_char_io
    \/ LoadDone
    \/ uart_proc_write
    \/ uart_send_string
    \/ uart_send_char_spin
    \/ uart_send_char_io
    \/ uart_proc_write_return
    \/ uart_proc_read
    \/ read_wait
    \/ read_outer
    \/ read_inner
    \/ read_recv
    \/ read_tail
    \/ read_sleep
    \/ read_fin
    \/ uart_proc_read_return
    \/ UnloadBannerStart
    \/ UnloadRemoveTx
    \/ UnloadRemoveRx
    \/ UnloadUnmap

SpecOverlap == InitOverlap /\ [][NextOverlap]_vars

(***************************************************************************)
(* Properties.                                                             *)
(***************************************************************************)
\* s with one CR inserted before each LF
RECURSIVE Crlf(_)
Crlf(s) ==
    IF s = <<>> THEN <<>>
    ELSE (IF Head(s) = LF THEN <<CR, LF>> ELSE <<Head(s)>>) \o Crlf(Tail(s))

\* the bytes of s other than NUL, in order
RECURSIVE NonZero(_)
NonZero(s) ==
    IF s = <<>> THEN <<>>
    ELSE (IF Head(s) = NUL THEN <<>> ELSE <<Head(s)>>) \o NonZero(Tail(s))

\* positions of uart_proc_read inside the drain loop
DrainPcs == {"outer", "inner", "recv", "tail", "sleep"}

\* C1: when a tx-node write has sent its string, the bytes written to MU_IO
\* are exactly the string with one CR inserted before each LF.
C1_CrlfExact ==
    (tpc = "ret" /\ txWho = "write") => txLine = Crlf(CStr(txIn))

\* C2 (as claimed): after a read on a cursor returned any n >= 0, the next
\* read on that cursor returns 0 without reading a peripheral register.
C2_EofAfterAnyReturn ==
    (rpc = "ret" /\ hasPrev /\ prevRet >= 0) => (rret = 0 /\ ~touched)

\* C2 (amended): after a read on a cursor returned n > 0, the next read on
\* that cursor returns 0 at the gate without reading a peripheral register;
\* a read returns without polling only on a cursor that is past 0, so after a
\* read that returned 0 on a cursor still at 0 the next read polls again.
C2_EofAfterData ==
    /\ (rpc # "idle" /\ hasPrev /\ prevRet > 0) =>
          (rpc = "ret" /\ retAt = "gate" /\ rret = 0 /\ ~touched /\ taken = <<>>)
    /\ (rpc = "ret" /\ ~touched) => ppos > 0

C2_Witness == rpc = "ret" /\ hasPrev /\ prevRet > 0

\* C3 (as claimed): a handler that returns -EFAULT has left the peripheral as
\* it found it: no byte written to MU_IO, no byte taken from the RX FIFO.
C3_FaultTouchesNothing ==
    /\ (tpc = "ret" /\ txWho = "write" /\ wret = -EFAULT) => txLine = <<>>
    /\ (rpc = "ret" /\ retAt = "fault") =>
          (rret = -EFAULT /\ txLine = <<>> /\ taken = <<>>)

\* C3 (amended): a write whose copy_from_user fails returns -EFAULT with no
\* byte written to MU_IO; a read whose copy_to_user fails returns -EFAULT with
\* no byte written to MU_IO and the cursor not advanced, but the i >= 1 bytes
\* it drained have been removed from the RX FIFO, and the caller's buffer
\* holds the bytes copied before the fault: fewer than i, the first of the
\* bytes drained.
C3_FaultEffect ==
    /\ (tpc = "ret" /\ txWho = "write" /\ wret = -EFAULT) =>
          (txLine = <<>> /\ ~wcopied /\ Len(wbuf) >= 1)
    /\ (rpc = "ret" /\ retAt = "fault") =>
          /\ rret = -EFAULT
          /\ txLine = <<>>
          /\ ppos = 0
          /\ i >= 1
          /\ Len(taken) >= i
          /\ Len(out) < i
          /\ IsPrefix(out, NonZero(taken))

C3_Witness ==
    rpc = "ret" /\ retAt = "fault" /\ Len(taken) = i /\ out # <<>> /\ rxFifo = <<>>

\* C4: the first-byte wait makes at most FIRST_BYTE_TIMEOUT sleeps, returns 0
\* only when no poll saw data, and goes on to the drain loop when a poll,
\* the last one included, saw data.
C4_FirstByteWait ==
    /\ rpc = "wait" => timeout \in 0..FIRST_BYTE_TIMEOUT
    /\ (rpc = "ret" /\ retAt = "wait") => ~sawData
    /\ rpc \in DrainPcs => sawData

\* C5: the fill count stays within min(255, count), the terminator at index
\* i fits the buffer, a read returns at most min(255, count) bytes and the
\* terminator is not among the bytes copied to the caller.
C5_RxBound ==
    rpc # "idle" =>
       /\ 0 <= i /\ i <= Min(KBUF_SIZE - 1, count)
       /\ Len(kbuf) <= KBUF_SIZE
       /\ \A k \in 1..i : kbuf[k] # NUL
       /\ retAt \in {"ok", "fault"} => (Len(kbuf) = i + 1 /\ kbuf[i + 1] = NUL)
       /\ retAt = "ok" =>
             /\ rret = i
             /\ rret <= Min(KBUF_SIZE - 1, count)
             /\ Len(out) = i
             /\ \A k \in 1..Len(out) : out[k] # NUL

C5_Witness ==
    rpc = "ret" /\ retAt = "ok" /\ rret = KBUF_SIZE - 1 /\ count > rret /\ rxFifo # <<>>

\* C6: the bytes a read returns are exactly the non-NUL bytes the call took
\* from MU_IO, in order; CR and LF pass through.
C6_RxContent ==
    (rpc = "ret" /\ retAt = "ok") =>
       /\ rret > 0
       /\ Len(out) = rret
       /\ out = NonZero(taken)

C6_Witness ==
    /\ rpc = "ret" /\ retAt = "ok"
    /\ Len(taken) > Len(out)
    /\ out = <<CR>> \/ out = <<LF>>

\* the bytes in the RX FIFO at entry that the call has taken
StaleTaken == SubSeq(fifoAtEntry, 1, Min(Len(taken), Len(fifoAtEntry)))

\* C7 (as claimed): no byte a read returns was in the RX FIFO before the call
\* was entered.
C7_NoBacklog ==
    (rpc = "ret" /\ retAt = "ok") => NonZero(StaleTaken) = <<>>

\* C7 (amended): every byte a read returns was taken from the RX FIFO by that
\* same call; bytes already in the FIFO at entry are not discarded: they are
\* the first bytes the call takes, and their non-NUL ones head the data
\* returned.
C7_FifoBacklogFirst ==
    /\ rpc # "idle" => SubSeq(taken, 1, Len(StaleTaken)) = StaleTaken
    /\ (rpc = "ret" /\ retAt = "ok") =>
          /\ Len(out) <= Len(taken)
          /\ IsPrefix(NonZero(StaleTaken), out)

C7_Witness ==
    /\ rpc = "ret" /\ retAt = "ok"
    /\ NonZero(fifoAtEntry) # <<>>
    /\ Len(taken) > Len(fifoAtEntry)

\* C8: every write to MU_IO, by a tx-node write or by a banner of the module
\* thread, is made right after a read of MU_LSR by the same thread that saw
\* bit 5 set, with no other MU_IO write of that thread in between, also when
\* the two threads send at the same time.
C8_TxReadiness ==
    [][/\ (txLine' # txLine /\ txLine' # <<>>) => (tpc = "io" /\ lsrOk)
       /\ (bLine' # bLine /\ bLine' # <<>>) => (bpc = "io" /\ bLsrOk)]_vars

C8_Witness ==
    /\ tpc = "io" /\ lsrOk /\ txWho = "write" /\ Head(txPend) = CR /\ txLine # <<>>
    /\ bpc = "io" /\ bLsrOk /\ bLine # <<>>

\* the registers written by uart_init_os, in order, and the barrier
BringUpOrder ==
    <<"GPFSEL1", "GPPUPPDN0", "ENABLES", "MU_CNTL", "MU_IER", "MU_IIR", "MU_IIR",
      "MU_LCR", "MU_MCR", "MU_BAUD", "MU_CNTL", "wmb">>

\* the values the bring-up order fixes (position -> value)
BringUpValue ==
    [k \in {4, 5, 6, 7, 8, 9, 11} |->
        CASE k = 4 -> 0 [] k = 5 -> 0 [] k = 6 -> 2 [] k = 7 -> 4
          [] k = 8 -> 3 [] k = 9 -> 0 [] OTHER -> 3]

\* C9: the MMIO writes of a load are made once each in the bring-up order,
\* followed by the barrier; no byte is written to MU_IO before the barrier.
C9_BringUpOrder ==
    /\ \A k \in 1..Len(mmioLog) :
          /\ k <= Len(BringUpOrder)
          /\ mmioLog[k][1] = BringUpOrder[k]
          /\ k \in DOMAIN BringUpValue => mmioLog[k][2] = Pack(Word(BringUpValue[k]))
          /\ k = 3 => Unpack(mmioLog[k][2])[0] = 1
    /\ mpc \in {"unloaded", "map_uart", "bringup"} =>
          (tpc = "idle" /\ txLine = <<>> /\ bpc = "idle" /\ bLine = <<>>)
    /\ mpc \in {"create_tx", "create_rx", "banner"} => Len(mmioLog) = Len(BringUpOrder)

C9_Witness ==
    mpc = "banner" /\ bLine # <<>> /\ Len(mmioLog) = Len(BringUpOrder)

\* positions of the module thread between the end of bring-up and unload
LivePcs == {"create_tx", "create_rx", "banner", "running", "exit_banner"}

\* the configured values as the registers store them
Stored3 == Pack(Word(3))
Stored6509 == Pack(Word(6509))

Configured ==
    /\ regs["MU_CNTL"] = Stored3
    /\ regs["MU_LCR"] = Stored3
    /\ regs["MU_BAUD"] = Stored6509
    /\ 6509 = (500000000 \div 76800) - 1 /\ 6509 < 65536
    /\ FieldN(readl("GPFSEL1"), 12, 3) = GPIO_FSEL_ALT5
    /\ FieldN(readl("GPFSEL1"), 15, 3) = GPIO_FSEL_ALT5
    /\ FieldN(readl("GPPUPPDN0"), 28, 2) = GPIO_PUPDN_NONE
    /\ FieldN(readl("GPPUPPDN0"), 30, 2) = GPIO_PUPDN_UP

\* C10: from the end of bring-up until unload the configuration registers
\* hold the configured values, whatever the registers held before the load,
\* and no register is changed by a handler or a banner (which write MU_IO
\* only): every register holds what uart_init_os left in it.
C10_Configured ==
    mpc \in LivePcs => (regs = regsAtLoad /\ Configured)

C10_Witness ==
    /\ mpc = "running" /\ tpc = "ret" /\ txWho = "write" /\ txLine # <<>>
    /\ hasPrev /\ prevRet > 0
    /\ readl("ENABLES") = BitNot(Zero)

\* the number of calls e in the resource log s
Count(s, e) == Cardinality({k \in 1..Len(s) : s[k] = e})

\* C11: when uart_driver_init has returned -ENOMEM, from any of its four
\* failure points, no region is mapped and no node exists; each region mapped
\* by that load was unmapped exactly once, a tx node created was removed
\* exactly once, and uart_send_string was not called; while the releases are
\* being made, what is still to be released is exactly what is held, and a
\* write that entered through the tx node has returned before the node is
\* gone and the regions are unmapped.
C11_LoadRollback ==
    /\ (mpc = "unloaded" /\ loadRet = -ENOMEM) =>
          /\ ~gpio /\ ~uart /\ ~proc_tx /\ ~proc_rx
          /\ Count(resLog, "ioremap_gpio") <= 1
          /\ Count(resLog, "iounmap_gpio") = Count(resLog, "ioremap_gpio")
          /\ Count(resLog, "ioremap_uart") <= 1
          /\ Count(resLog, "iounmap_uart") = Count(resLog, "ioremap_uart")
          /\ Count(resLog, "proc_create_tx") <= 1
          /\ Count(resLog, "proc_remove_tx") = Count(resLog, "proc_create_tx")
          /\ Count(resLog, "proc_create_rx") = 0
          /\ Count(resLog, "uart_send_string") = 0
          /\ bpc = "idle" /\ bLine = <<>>
          /\ tpc = "idle" /\ rpc = "idle"
    /\ mpc = "fail" =>
          /\ undo # <<>>
          /\ proc_tx <=> "proc_remove_tx" \in Range(undo)
          /\ uart <=> "iounmap_uart" \in Range(undo)
          /\ gpio <=> "iounmap_gpio" \in Range(undo)
          /\ ~proc_rx /\ rpc = "idle" /\ bpc = "idle"
          /\ tpc # "idle" => (proc_tx /\ uart /\ gpio)

C11_Witness ==
    /\ mpc = "unloaded" /\ loadRet = -ENOMEM
    /\ Count(resLog, "proc_remove_tx") = 1
    /\ hasPrev

\* positions of the handlers and of bring-up that access a register
TxAccessPcs == {"str", "spin", "io"}
RxAccessPcs == {"wait", "outer", "inner", "recv", "tail", "sleep"}

\* C12: in a load/unload cycle each region is mapped at most once and
\* unmapped at most once, after its mapping; a region is mapped exactly while
\* its mapping has not been unmapped; nothing stays mapped when the module is
\* not loaded; bring-up, the banners and the handlers run, and the nodes
\* exist, only while the regions are mapped, the handlers only while their
\* node exists; the unmapping of uart_driver_exit starts after the farewell
\* banner is out and every handler has returned.
C12_MappingLifecycle ==
    /\ Count(resLog, "ioremap_gpio") <= 1
    /\ Count(resLog, "ioremap_uart") <= 1
    /\ Count(resLog, "iounmap_gpio") <= Count(resLog, "ioremap_gpio")
    /\ Count(resLog, "iounmap_uart") <= Count(resLog, "ioremap_uart")
    /\ gpio <=> Count(resLog, "ioremap_gpio") > Count(resLog, "iounmap_gpio")
    /\ uart <=> Count(resLog, "ioremap_uart") > Count(resLog, "iounmap_uart")
    /\ mpc = "unloaded" => (~gpio /\ ~uart)
    /\ mpc = "bringup" => (gpio /\ uart)
    /\ bpc \in TxAccessPcs => (gpio /\ uart)
    /\ tpc \in TxAccessPcs => (proc_tx /\ uart)
    /\ rpc \in RxAccessPcs => (proc_rx /\ uart)
    /\ (proc_tx \/ proc_rx) => (gpio /\ uart)
    /\ mpc \in {"exit_banner", "exit_remove_rx"} => (gpio /\ uart)
    /\ mpc = "exit_remove_rx" => (bpc = "idle" /\ tpc = "idle")
    /\ mpc = "exit_unmap" =>
          (gpio /\ uart /\ bpc = "idle" /\ tpc = "idle" /\ rpc = "idle")

C12_Witness ==
    /\ mpc = "exit_remove_rx" /\ ~proc_tx
    /\ rpc = "recv" /\ rxFifo # <<>>
    /\ Count(resLog, "uart_send_string") = 2
    /\ gpio /\ uart

\* the bytes of s other than CR, in order
RECURSIVE NoCr(_)
NoCr(s) ==
    IF s = <<>> THEN <<>>
    ELSE (IF Head(s) = CR THEN <<>> ELSE <<Head(s)>>) \o NoCr(Tail(s))

\* C13: a tx-node write whose copy_from_user succeeded returns the count it
\* was called with, the length of the caller's payload, whether that is 0,
\* below or above the 255 bytes that are sent.
C13_TxReturnsCount ==
    (tpc = "ret" /\ txWho = "write" /\ wcopied) =>
       (wret = wcount /\ wcount = Len(wbuf))

C13_Witness ==
    /\ tpc = "ret" /\ txWho = "write" /\ wcopied
    /\ wret = LongLen /\ Len(txIn) = KBUF_SIZE

\* C14 (as claimed): the payload bytes written to MU_IO by a write whose copy
\* succeeded are the first min(count, 255) bytes of the payload, in order,
\* and nothing of the payload beyond them.
C14_TxTruncation ==
    (tpc = "ret" /\ txWho = "write" /\ wcopied) =>
       NoCr(txLine) = NoCr(SubSeq(wbuf, 1, Min(wcount, KBUF_SIZE - 1)))

\* C14 (amended): the payload bytes written to MU_IO are the bytes of the
\* first min(count, 255) bytes of the payload that precede its first NUL, in
\* order; neither a NUL, nor a byte after a NUL, nor a byte at index 255 or
\* above is written.
C14_TxTruncationToNul ==
    (tpc = "ret" /\ txWho = "write" /\ wcopied) =>
       /\ NoCr(txLine) = NoCr(CStr(SubSeq(wbuf, 1, Min(wcount, KBUF_SIZE - 1))))
       /\ NUL \notin Range(txLine)

C14_Witness ==
    /\ tpc = "ret" /\ txWho = "write" /\ wcopied
    /\ Len(wbuf) = LongLen
    /\ wbuf[KBUF_SIZE - 1] = LF
    /\ Len(NoCr(txLine)) = KBUF_SIZE - 1

\* C15: the bytes written to MU_IO by the load banner are exactly the text
\* "Mini UART driver loaded successfully!", one CR and one LF, and those of
\* the farewell banner exactly "Mini UART driver unloading...", one CR and
\* one LF.
C15_BannerBytes ==
    /\ (bpc = "ret" /\ mpc = "banner") => bLine = LoadBanner
    /\ (bpc = "ret" /\ mpc = "exit_banner") => bLine = UnloadBanner

\* C16: a read during whose drain loop no byte arrives on the line sleeps at
\* most 1000 times in the first-byte wait and at most 300 times in the drain
\* loop, hence at most 1000 + 300 + 255 times before it returns.
C16_TickBound ==
    /\ sleeps[1] <= FIRST_BYTE_TIMEOUT
    /\ (rpc # "idle" /\ ~late) =>
          /\ sleeps[2] <= MAX_CONSECUTIVE_NO_DATA
          /\ sleeps[1] + sleeps[2] <=
                FIRST_BYTE_TIMEOUT + MAX_CONSECUTIVE_NO_DATA + (KBUF_SIZE - 1)

C16_Witness ==
    /\ rpc = "ret" /\ retAt = "ok" /\ ~late
    /\ sleeps = <<FIRST_BYTE_TIMEOUT - 1, MAX_CONSECUTIVE_NO_DATA>>

\* C17 (as claimed): when the drain loop is left because consecutive_no_data
\* reached 300, no byte of any value was read from MU_IO between the first
\* and the last of the ticks counted.
C17_IdleExitNoReads ==
    (rpc = "fin" /\ IdleLimit(q)) => idleReads = <<>>

\* the last byte of a non-empty sequence
Last(s) == s[Len(s)]

\* C17 (amended): consecutive_no_data grows by one per sleep, a sleep is made
\* only when MU_LSR showed the RX FIFO empty, and it is reset to 0 when a
\* non-NUL byte is received, not when a NUL is; so when the drain loop is left
\* because it reached 300, every byte read from MU_IO between the first and
\* the last of the ticks counted was a NUL.
C17_IdleExitNoData ==
    /\ [](/\ (rpc = "fin" /\ IdleLimit(q)) =>
               (q = MAX_CONSECUTIVE_NO_DATA /\ \A k \in 1..Len(idleReads) : idleReads[k] = NUL)
          /\ rpc \in DrainPcs => (q < MAX_CONSECUTIVE_NO_DATA /\ q <= sleeps[2]))
    /\ [][/\ q' > q => (q' = q + 1 /\ rpc = "sleep")
          /\ (rpc # "sleep" /\ rpc' = "sleep") => (rpc = "tail" /\ rxFifo = <<>>)
          /\ Len(taken') > Len(taken) =>
                IF Last(taken') # NUL THEN q' = 0 ELSE q' = q]_vars

C17_Witness ==
    /\ rpc = "fin" /\ IdleLimit(q) /\ i > 0
    /\ idleReads # <<>>

\* C18: every call of uart_proc_read returns, whatever arrives on the line,
\* also when the line keeps the RX FIFO non-empty with NUL bytes, as long as
\* the thread of the read keeps being scheduled.
C18_ReadTerminates == (rpc = "wait") ~> (rpc = "ret")

\* C19: a read and a write of the tx node that run at the same time, their
\* register accesses interleaved in any order, do what they did when each ran
\* alone with the same arguments against the same content of the RX FIFO: the
\* read copies the same bytes to its caller and returns the same value (at
\* every moment it has stored a prefix of those bytes), the write puts the
\* same bytes into MU_IO in the same order and returns the same value (at
\* every moment it has written a prefix of those bytes); the bytes that were
\* in the RX FIFO are those the read has taken followed by those still in
\* it; while a call is in progress a byte leaves the RX FIFO only in a step
\* of the read, which writes nothing to MU_IO, and a byte is written to MU_IO
\* only in a step of the write, which takes nothing from the RX FIFO.
C19_Independence ==
    /\ [](/\ (together /\ rpc # "idle") =>
                /\ <<count, fifoAtEntry>> = <<ref[1], ref[2]>>
                /\ IsPrefix(SubSeq(kbuf, 1, i), ref[3])
                /\ fifoAtEntry \o arrived = taken \o rxFifo
          /\ (together /\ rpc = "ret") => <<out, rret>> = <<ref[3], ref[4]>>
          /\ (together /\ tpc # "idle") =>
                /\ wbuf = wref[1]
                /\ IsPrefix(txLine, wref[2])
          /\ (together /\ tpc = "ret") => <<txLine, wret>> = <<wref[2], wref[3]>>)
    /\ [][/\ (Len(rxFifo') < Len(rxFifo) /\ (rpc # "idle" \/ tpc # "idle")) =>
                /\ rpc = "recv" /\ taken' = Append(taken, Head(rxFifo))
                /\ tpc' = tpc /\ txLine' = txLine /\ txSpace' = txSpace
          /\ Len(txLine') > Len(txLine) =>
                /\ tpc = "io"
                /\ rpc' = rpc /\ taken' = taken /\ kbuf' = kbuf /\ q' = q
                /\ rxFifo' = rxFifo]_vars

\* the read and the write that ran alone run again at the same time: the
\* read has taken a byte and the write has written one, and neither is over
C19_Witness ==
    /\ together /\ ref[3] # <<>> /\ wref[2] # <<>>
    /\ tpc = "io" /\ txWho = "write" /\ txLine # <<>>
    /\ rpc = "recv" /\ taken # <<>>

====
